---------------------------- MODULE Spec2Model ----------------------------
(***************************************************************************)
(* Model of the background processing orchestrator of the processor        *)
(* service (processor-api): ProcessorUploadService, the job-record store   *)
(* of database/db.py and the POST /process route.                          *)
(*                                                                         *)
(* Python values are encoded so that every field keeps one TLA+ type:      *)
(*   - an Optional value is a record [isNull, v]; None has isNull = TRUE   *)
(*   - a list is a sequence; a dict is a sequence of <<key, value>> pairs  *)
(*   - an exception is identified with its message, str(e)                 *)
(***************************************************************************)
EXTENDS Naturals, Sequences, FiniteSets, TLC

\* Number of job ids the model generates (uuid4 values, taken as fresh).
MaxJobs == 2

JobIds == 1..MaxJobs

-----------------------------------------------------------------------------
(* Python values *)

Null == [isNull |-> TRUE, v |-> <<>>]
NullStr == [isNull |-> TRUE, v |-> ""]
Some(x) == [isNull |-> FALSE, v |-> x]

\* Python truthiness of an Optional list / dict: None, [] and {} are falsy.
Truthy(o) == (~o.isNull) /\ o.v # <<>>

HasKey(d, k) == \E i \in 1..Len(d) : d[i][1] = k

\* dict.get(k): the value under k, None when the key is missing.
DictGet(d, k) ==
    IF HasKey(d, k)
    THEN Some((d[CHOOSE i \in 1..Len(d) : d[i][1] = k])[2])
    ELSE NullStr

-----------------------------------------------------------------------------
(* Messages and exceptions *)

LoadMsg == <<"Nao foi possivel carregar o dataset">>
NoResultsMsg == <<"Processamento falhou ao gerar resultados">>
\* f"Erro durante processamento: {str(e)}"
ProcMsg(e) == <<"Erro durante processamento: ", e>>

FileNotFound == "No such file or directory"
PipelineError == "pipeline failed"
StoreError == "database unavailable"
NotNullError == "null value in column best_choice violates not-null constraint"
LoopRunningError == "This event loop is already running"

\* The message m was built from the text of exception e.
Contains(m, e) == \E i \in 1..Len(m) : m[i] = e

-----------------------------------------------------------------------------
(* Configuration and datasets *)

\* Files present in UPLOAD_FOLDER; any other dataset_id fails pd.read_csv.
Uploaded == {"ds1"}
DatasetIds == {"ds1", "missing-id"}
\* feature_selection.method; FeatureSelectionConfig defaults it to "auto".
FsMethods == {"auto", "correlation"}

Configs == [dataset_id : DatasetIds, fs_method : FsMethods]

NoConfig == [dataset_id |-> "", fs_method |-> ""]

\* ProcessingConfig with its two exploration flags,
\* feature_selection.auto_explore and use_auto_explore (both default False).
ExploreConfigs ==
    [ dataset_id : DatasetIds, fs_method : FsMethods,
      auto_explore : BOOLEAN, use_auto_explore : BOOLEAN ]

\* ProcessingConfig(dataset_id=d): every other field at its default.
DefaultConfig(d) ==
    [ dataset_id |-> d, fs_method |-> "auto",
      auto_explore |-> FALSE, use_auto_explore |-> FALSE ]

-----------------------------------------------------------------------------
(* What a run on the executor returns *)

\* pipeline.get_validation_results(): None, {}, or a metrics mapping that
\* holds or lacks the best_choice entry.
ValidationOutcomes ==
    { Null,
      Some(<<>>),
      Some(<< <<"best_choice", "original">>, <<"metric", "accuracy">> >>),
      Some(<< <<"best_choice", "transformed">>, <<"metric", "accuracy">> >>),
      Some(<< <<"metric", "accuracy">> >>),
      Some(<< <<"best_choice", "original">>, <<"performance_diff_pct", "n/a">> >>) }

ExplorerStats == << <<"best_transformation", "t1">> >>


\* What the engine run found: the validation mapping, whether any column
\* had findings (reports and transformations), or the exception it raised.
EngineRuns == [validation : ValidationOutcomes, findings : BOOLEAN]

ReportOf(run, col) == IF run.findings THEN <<col>> ELSE <<>>

\* _extract_transformations: the preprocessor's entries followed by the
\* feature engineer's; None when the list is empty (or on any exception).
ExtractTransformations(pre, fe) ==
    LET transformations == pre \o fe
    IN  IF transformations # <<>> THEN Some(transformations) ELSE Null

EngineApplied(run) == IF run.findings THEN <<"imputation:c1">> ELSE <<>>

\* Faulty variant: the direct path reports statistics of an exploration too.
ProcessDataSyncWithStatistics(c, run) ==
    [ preprocessing_config       |-> Some(<< <<"scaling", "auto">> >>),
      feature_engineering_config |-> Some(<< <<"feature_selection", c.fs_method>> >>),
      validation_results         |-> run.validation,
      missing_values_report      |-> Some(ReportOf(run, "c1")),
      outliers_report            |-> Some(ReportOf(run, "c2")),
      feature_importance         |-> Some(ReportOf(run, "c1")),
      transformations_applied    |-> ExtractTransformations(EngineApplied(run), <<>>),
      transformation_statistics  |-> Some(ExplorerStats) ]

\* The dict _process_data_sync returns (no transformation_statistics key).
ProcessDataSync(c, run) ==
    [ preprocessing_config       |-> Some(<< <<"scaling", "auto">> >>),
      feature_engineering_config |-> Some(<< <<"feature_selection", c.fs_method>> >>),
      validation_results         |-> run.validation,
      missing_values_report      |-> Some(ReportOf(run, "c1")),
      outliers_report            |-> Some(ReportOf(run, "c2")),
      feature_importance         |-> Some(ReportOf(run, "c1")),
      transformations_applied    |-> ExtractTransformations(EngineApplied(run), <<>>) ]

\* The dict _process_data_with_explorer returns.
ProcessDataWithExplorer(c, run) ==
    [ preprocessing_config       |-> Some(<< <<"scaling", "best">> >>),
      feature_engineering_config |-> Some(<< <<"feature_selection", "best">> >>),
      validation_results         |-> run.validation,
      missing_values_report      |-> Some(ReportOf(run, "c1")),
      outliers_report            |-> Some(ReportOf(run, "c2")),
      feature_importance         |-> Some(ReportOf(run, "c1")),
      transformations_applied    |-> ExtractTransformations(EngineApplied(run), <<>>),
      transformation_statistics  |-> Some(ExplorerStats) ]

NoResults == [none |-> TRUE]

\* dict.get(key, default) on a results dict.
ResultGet(res, key, default) == IF key \in DOMAIN res THEN res[key] ELSE default

\* use_explorer = config.feature_selection and config.feature_selection.method == 'auto'
UseExplorer(c) == c.fs_method = "auto"

-----------------------------------------------------------------------------
(* The data_processed table *)

TerminalStatuses == {"completed", "error"}

ReportFields ==
    { "missing_values_report", "outliers_report", "feature_importance",
      "transformations_applied", "validation_results", "transformation_statistics" }

NoRow ==
    [ present                    |-> FALSE,
      dataset_id                 |-> "",
      status                     |-> "",
      error_message              |-> Null,
      best_choice                |-> NullStr,
      preprocessing_config       |-> Null,
      feature_engineering_config |-> Null,
      validation_results         |-> Null,
      missing_values_report      |-> Null,
      outliers_report            |-> Null,
      feature_importance         |-> Null,
      transformations_applied    |-> Null,
      transformation_statistics  |-> Null ]

\* Faulty variant: the initial result is built with a message.
InitialResultWithMessage(c) ==
    [ dataset_id                 |-> c.dataset_id,
      status                     |-> "processing",
      error_message              |-> Some(<<"Processamento iniciado">>),
      missing_values_report      |-> Some(<<>>),
      outliers_report            |-> Some(<<>>),
      feature_importance         |-> Some(<<>>),
      transformations_applied    |-> Some(<<>>),
      preprocessing_config       |-> Some(<<>>),
      feature_engineering_config |-> Some(<<>>),
      validation_results         |-> Some(<<>>),
      transformation_statistics  |-> Some(<<>>) ]

\* ProcessingResult(id=..., dataset_id=..., status="processing",
\* transformation_statistics={}).dict(): the model's defaults fill the rest.
InitialResult(c) ==
    [ dataset_id                 |-> c.dataset_id,
      status                     |-> "processing",
      error_message              |-> Null,
      missing_values_report      |-> Some(<<>>),
      outliers_report            |-> Some(<<>>),
      feature_importance         |-> Some(<<>>),
      transformations_applied    |-> Some(<<>>),
      preprocessing_config       |-> Some(<<>>),
      feature_engineering_config |-> Some(<<>>),
      validation_results         |-> Some(<<>>),
      transformation_statistics  |-> Some(<<>>) ]

\* Column defaults applied by an INSERT that gives no value for the column.
ColumnDefault(f) == IF f = "best_choice" THEN Some("original") ELSE NoRow[f]

\* save_processing_results: INSERT of the given values.
SaveProcessingResults(st, id, data) ==
    [st EXCEPT ![id] =
        [f \in DOMAIN NoRow |->
            IF f = "present" THEN TRUE
            ELSE IF f \in DOMAIN data THEN data[f]
            ELSE ColumnDefault(f)]]

\* Faulty variant: the UPDATE has no WHERE clause and changes every row.
UpdateProcessingStatusAllRows(st, id, status, msg) ==
    [k \in JobIds |->
        IF st[k].present
        THEN [st[k] EXCEPT !.status = status,
                           !.error_message = IF Truthy(msg) THEN msg ELSE @]
        ELSE st[k]]

\* update_processing_status: UPDATE ... WHERE id = processing_id of status
\* (and of error_message, when one is given); no row matched changes nothing.
UpdateProcessingStatus(st, id, status, msg) ==
    IF st[id].present
    THEN [st EXCEPT ![id].status = status,
                    ![id].error_message = IF Truthy(msg) THEN msg ELSE @]
    ELSE st

\* update_processing_results: one UPDATE of every key of update_data.
UpdateProcessingResults(st, id, data) ==
    IF st[id].present
    THEN [st EXCEPT ![id] =
            [f \in DOMAIN NoRow |-> IF f \in DOMAIN data THEN data[f] ELSE @[f]]]
    ELSE st

\* best_choice and status are nullable=False columns.
ViolatesNotNull(data) ==
    \/ ("best_choice" \in DOMAIN data /\ data.best_choice.isNull)

\* The best_choice the task computes from the results of the run.
BestChoice(res) ==
    LET validation_results == ResultGet(res, "validation_results", Null)
    IN  IF Truthy(validation_results)
        THEN DictGet(validation_results.v, "best_choice")
        ELSE Some("original")

\* Faulty variant: the reports are written without the status (the status would
\* follow in a second write).
CompletionFieldsWithoutStatus(res) ==
    [ best_choice                |-> BestChoice(res),
      preprocessing_config       |-> ResultGet(res, "preprocessing_config", Null),
      feature_engineering_config |-> ResultGet(res, "feature_engineering_config", Null),
      validation_results         |-> ResultGet(res, "validation_results", Null),
      missing_values_report      |-> ResultGet(res, "missing_values_report", Null),
      outliers_report            |-> ResultGet(res, "outliers_report", Null),
      feature_importance         |-> ResultGet(res, "feature_importance", Null),
      transformations_applied    |-> ResultGet(res, "transformations_applied", Null),
      transformation_statistics  |-> ResultGet(res, "transformation_statistics", Some(<<>>)) ]

\* The update_data of the completion write.
CompletionFields(res) ==
    [ status                     |-> "completed",
      best_choice                |-> BestChoice(res),
      preprocessing_config       |-> ResultGet(res, "preprocessing_config", Null),
      feature_engineering_config |-> ResultGet(res, "feature_engineering_config", Null),
      validation_results         |-> ResultGet(res, "validation_results", Null),
      missing_values_report      |-> ResultGet(res, "missing_values_report", Null),
      outliers_report            |-> ResultGet(res, "outliers_report", Null),
      feature_importance         |-> ResultGet(res, "feature_importance", Null),
      transformations_applied    |-> ResultGet(res, "transformations_applied", Null),
      transformation_statistics  |-> ResultGet(res, "transformation_statistics", Some(<<>>)) ]

-----------------------------------------------------------------------------
(* HTTP requests and responses of POST /process *)

\* The dataset_id of a request body: absent, empty, or a dataset name.
RequestDatasetIds == {NullStr} \cup {Some(d) : d \in {"", "ds1", "missing-id"}}

NoResponse == [dataset_id |-> NullStr, code |-> 0, id |-> 0]

\* Exceptions seen by the route's handler.
HTTPException(code) == [kind |-> "HTTPException", status_code |-> code]
SQLAlchemyError == [kind |-> "SQLAlchemyError", status_code |-> 0]

\* ProcessingConfig declares `dataset_id: str` with no default: a body
\* without it does not validate and the handler is not entered.
BodyValidates(d) == ~d.isNull

\* `if not config.dataset_id`: the empty string is falsy.
DatasetIdMissing(d) == d.v = ""

\* The handler's only except clause, `except Exception as e`, takes every
\* exception raised in the try body (HTTPException is an Exception) and
\* raises HTTPException(500).
ProcessRouteExcept(e) == HTTPException(500)

-----------------------------------------------------------------------------
(* GET /process/{processing_id} and its sub-views: the answers *)

\* The four sub-view routes and the report field each of them reads.
SubViews ==
    { "missing_values_report", "outliers_report", "feature_importance",
      "transformations_applied" }

NoReply == [route |-> "none", id |-> 0, code |-> 0, status |-> "", body |-> Null]

-----------------------------------------------------------------------------
(* Timestamps of the initial result *)

NullTime == [isNull |-> TRUE, v |-> 0]

NoStamps == [created_at |-> NullTime, updated_at |-> NullTime]

\* Largest clock reading the model follows.
MaxClock == 2

-----------------------------------------------------------------------------
(* ProcessorService: reports extracted from the fitted pipeline *)

\* df.columns, in order.
Columns == <<"c1", "c2">>

\* Largest per-column count of missing values / outliers.
MaxCount == 1

\* col_stats.get('imputation_strategy', 'none')
Strategies == {"none", "mean"}

\* One entry of preprocessor.column_stats, with the column's dtype.
ColStats ==
    [ missing_count : 0..MaxCount, imputation_strategy : Strategies,
      outliers_count : 0..MaxCount, numeric : BOOLEAN ]

NoStats ==
    [ i \in 1..Len(Columns) |->
        [ missing_count |-> 0, imputation_strategy |-> "none",
          outliers_count |-> 0, numeric |-> TRUE ] ]

NoReports == [missing_values_report |-> Null, outliers_report |-> Null]

-----------------------------------------------------------------------------
(* Direct calls of the store functions (database/db.py) *)

NoCall == [op |-> "none", id |-> 0, status |-> "", msg |-> Null, value |-> ""]

-----------------------------------------------------------------------------
(* matplotlib.pyplot *)

\* The figures a run draws and saves, in the order of the code.
Plots == <<"missing_values.png", "outliers.png">>

\* pyplot's state is one per process: `figs`, the open figures, the most
\* recently activated last (the current figure is the last one).  Next to
\* it, for each run on an executor worker: its position, the number of the
\* figure its visualizer returned, the plots it has finished, and the
\* files it has saved.
NoFigures ==
    [ figs  |-> <<>>,
      pc    |-> [j \in JobIds |-> "report"],
      fig   |-> [j \in JobIds |-> 0],
      done  |-> [j \in JobIds |-> 0],
      saved |-> [j \in JobIds |-> <<>>] ]

-----------------------------------------------------------------------------
(* The gateway's rate limiter *)

\* request.client.host
ClientIps == {"10.0.0.1", "10.0.0.2"}

\* request.url.path, in pieces: startswith compares leading pieces.
EXCLUDED_ROUTES == {<<"/health">>, <<"/docs">>, <<"/redoc">>, <<"/openapi.json">>}
RequestPaths == {<<"/health">>, <<"/health", "z">>, <<"/api", "/datasets">>}

\* deque(maxlen=500), scaled down.
DequeMaxLen == 2
\* settings.RATE_LIMIT_REQUESTS: below, at and above the deque's maxlen.
RateLimits == 1..(DequeMaxLen + 1)
\* settings.RATE_LIMIT_WINDOW, in ticks of time.time().
MaxWindow == 2
RateWindows == 1..MaxWindow
\* The readings of time.time() and the number of requests considered.
MaxTime == 3
MaxRequests == 4

\* The limiter of a gateway configured with the two settings, before its
\* first request: request_records is empty for every IP.  `admitted` is the
\* history of the requests passed on to call_next for non-excluded routes,
\* `last` the answer to the latest request.
Limiter(limit, window) ==
    [ RATE_LIMIT_REQUESTS |-> limit,
      RATE_LIMIT_WINDOW   |-> window,
      request_records     |-> [ip \in ClientIps |-> <<>>],
      time                |-> 0,
      requests            |-> 0,
      admitted            |-> [ip \in ClientIps |-> <<>>],
      last                |-> [ip |-> "", excluded |-> FALSE, code |-> 0,
                               inWindow |-> 0, recorded |-> FALSE] ]

\* The settings are drawn when the gateway starts (GatewayInit).
NoGateway == Limiter(DequeMaxLen, MaxWindow)

-----------------------------------------------------------------------------
(* State *)

VARIABLES
    store,      \* the data_processed table: job id -> row
    nextId,     \* number of job ids generated so far
    cfg,        \* the ProcessingConfig each job was submitted with
    sub,        \* position of the process_dataset call that created the job
    pc,         \* position of the job's background task
    results,    \* the results dict the task holds while it writes completion
    exc,        \* the exception the task is handling / that escaped it
    invoked,    \* which function ran on the executor for the job
    raised,     \* history: exceptions raised during the background execution
    writes,     \* history: successful store writes for the job id, in order
    observed,   \* history: status returned by the latest read of the job,
                \* kept once a read has returned a terminal status
    response,   \* the answer to the latest POST /process request
    reply,      \* the answer to the latest GET /process/{id}... request
    clock,      \* the reading datetime.now() returns at this moment
    stamps,     \* created_at / updated_at of the initial result being built
    column_stats,   \* preprocessor.column_stats of a fitted pipeline
    extracted,  \* the reports extracted from that pipeline
    returned,   \* what the latest direct call of a store function returned
    pyplot,     \* matplotlib.pyplot's figures and the runs drawing on them
    gateway     \* the gateway's rate limiter: records, lock, requests

\* The state outside the job records and their background tasks.
aux == <<reply, clock, stamps, column_stats, extracted, returned, pyplot, gateway>>

vars == <<store, nextId, cfg, sub, pc, results, exc, invoked, raised, writes,
          observed, response, aux>>

\* No submission yet, an empty table.
ServiceInit ==
    /\ store = [j \in JobIds |-> NoRow]
    /\ nextId = 0
    /\ cfg = [j \in JobIds |-> NoConfig]
    /\ sub = [j \in JobIds |-> "idle"]
    /\ pc = [j \in JobIds |-> "none"]
    /\ results = [j \in JobIds |-> NoResults]
    /\ exc = [j \in JobIds |-> ""]
    /\ invoked = [j \in JobIds |-> "none"]
    /\ raised = [j \in JobIds |-> <<>>]
    /\ writes = [j \in JobIds |-> <<>>]
    /\ observed = [j \in JobIds |-> "unread"]
    /\ response = NoResponse
    /\ reply = NoReply
    /\ stamps = [j \in JobIds |-> NoStamps]
    /\ returned = NoCall

Init ==
    /\ ServiceInit
    /\ clock = 0
    /\ column_stats = NoStats
    /\ extracted = NoReports
    /\ pyplot = NoFigures
    /\ gateway = NoGateway

-----------------------------------------------------------------------------
(* ProcessorUploadService.process_dataset *)

\* The call up to `await save_processing_results(...)`: a fresh id and the
\* initial result are built, the INSERT is in flight.
ProcessDatasetCall(c) ==
    /\ nextId < MaxJobs
    /\ nextId' = nextId + 1
    /\ cfg' = [cfg EXCEPT ![nextId + 1] = c]
    /\ sub' = [sub EXCEPT ![nextId + 1] = "saving"]
    /\ UNCHANGED <<store, pc, results, exc, invoked, raised, writes, observed, response, aux>>

\* Faulty variant: the call awaits the task's coroutine instead of scheduling it,
\* so the background work runs inside the submitting call.
ProcessDatasetAwaitsTask(j) ==
    /\ sub[j] = "saving"
    /\ store' = SaveProcessingResults(store, j, InitialResult(cfg[j]))
    /\ writes' = [writes EXCEPT ![j] = Append(@, "create")]
    /\ pc' = [pc EXCEPT ![j] = "created"]
    /\ sub' = [sub EXCEPT ![j] = "awaiting_task"]
    /\ UNCHANGED <<nextId, cfg, results, exc, invoked, raised, observed, response, aux>>

\* The INSERT commits; create_task and add_done_callback run without a
\* further await and the call returns the id.
ProcessDatasetReturn(j) ==
    /\ sub[j] = "saving"
    /\ store' = SaveProcessingResults(store, j, InitialResult(cfg[j]))
    /\ writes' = [writes EXCEPT ![j] = Append(@, "create")]
    /\ pc' = [pc EXCEPT ![j] = "created"]
    /\ sub' = [sub EXCEPT ![j] = "returned"]
    /\ UNCHANGED <<nextId, cfg, results, exc, invoked, raised, observed, response, aux>>

\* Faulty variant: the task is created before the INSERT is awaited, so it
\* exists although the INSERT raised.
ProcessDatasetRaiseAfterCreateTask(j) ==
    /\ sub[j] = "saving"
    /\ sub' = [sub EXCEPT ![j] = "raised"]
    /\ pc' = [pc EXCEPT ![j] = "created"]
    /\ UNCHANGED <<store, nextId, cfg, results, exc, invoked, raised, writes,
                   observed, response, aux>>

\* The INSERT raises SQLAlchemyError: the call raises, no task is created.
ProcessDatasetRaise(j) ==
    /\ sub[j] = "saving"
    /\ sub' = [sub EXCEPT ![j] = "raised"]
    /\ UNCHANGED <<store, nextId, cfg, pc, results, exc, invoked, raised, writes,
                   observed, response, aux>>

-----------------------------------------------------------------------------
(* ProcessorUploadService._process_dataset_task *)

\* fetch_dataset: the frame, or None when reading the file raises.
FetchFails(c) == c.dataset_id \notin Uploaded

\* First slice of the task: fetch_dataset, then either the error write for
\* a dataset that did not load or the hand-over to the executor.
TaskStart(j) ==
    /\ pc[j] = "created"
    /\ IF FetchFails(cfg[j])
       THEN /\ pc' = [pc EXCEPT ![j] = "w_load"]
            /\ raised' = [raised EXCEPT ![j] = Append(@, FileNotFound)]
       ELSE /\ pc' = [pc EXCEPT ![j] = "queued"]
            /\ UNCHANGED raised
    /\ UNCHANGED <<store, nextId, cfg, sub, results, exc, invoked, writes, observed, response, aux>>

\* An executor worker starts _process_data_sync or _process_data_with_explorer.
ExecutorStart(j) ==
    /\ pc[j] = "queued"
    /\ pc' = [pc EXCEPT ![j] = "running"]
    /\ invoked' = [invoked EXCEPT ![j] = IF UseExplorer(cfg[j]) THEN "explorer" ELSE "sync"]
    /\ UNCHANGED <<store, nextId, cfg, sub, results, exc, raised, writes, observed, response, aux>>

RunOnExecutor(c, run) ==
    IF UseExplorer(c) THEN ProcessDataWithExplorer(c, run) ELSE ProcessDataSync(c, run)

\* `if results:` a dict is truthy when it has a key.
ResultsTruthy(res) == res # NoResults /\ DOMAIN res # {}

\* The function returns and the task resumes with its results.
ExecutorReturn(j) ==
    /\ pc[j] = "running"
    /\ \E run \in EngineRuns :
         LET res == RunOnExecutor(cfg[j], run)
         IN  IF ResultsTruthy(res)
             THEN /\ results' = [results EXCEPT ![j] = res]
                  /\ pc' = [pc EXCEPT ![j] = "w_complete"]
             ELSE /\ pc' = [pc EXCEPT ![j] = "w_noresults"]
                  /\ UNCHANGED results
    /\ UNCHANGED <<store, nextId, cfg, sub, exc, invoked, raised, writes, observed, response, aux>>

\* The function raises; the inner handler takes the exception.
ExecutorRaise(j) ==
    /\ pc[j] = "running"
    /\ exc' = [exc EXCEPT ![j] = PipelineError]
    /\ raised' = [raised EXCEPT ![j] = Append(@, PipelineError)]
    /\ pc' = [pc EXCEPT ![j] = "w_inner"]
    /\ UNCHANGED <<store, nextId, cfg, sub, results, invoked, writes, observed, response, aux>>

\* A store write raised e at position p: where the task continues.
\* The completion write and the no-results write are inside the inner try;
\* the inner handler and the load write are inside the outer try; an
\* exception of the outer handler leaves the task.
AfterRaise(p) ==
    CASE p = "w_complete"  -> "w_inner"
      [] p = "w_noresults" -> "w_inner"
      [] p = "w_inner"     -> "w_outer"
      [] p = "w_load"      -> "w_outer"
      [] p = "w_outer"     -> "escaped"

\* The completion write succeeds.
WriteCompleted(j) ==
    /\ pc[j] = "w_complete"
    /\ ~ViolatesNotNull(CompletionFields(results[j]))
    /\ store' = UpdateProcessingResults(store, j, CompletionFields(results[j]))
    /\ writes' = [writes EXCEPT ![j] = Append(@, "completed")]
    /\ results' = [results EXCEPT ![j] = NoResults]
    /\ pc' = [pc EXCEPT ![j] = "done"]
    /\ UNCHANGED <<nextId, cfg, sub, exc, invoked, raised, observed, response, aux>>

\* Faulty variant: the UPDATE is committed and the call raises afterwards.
WriteCompletedRaiseAfterCommit(j) ==
    /\ pc[j] = "w_complete"
    /\ ~ViolatesNotNull(CompletionFields(results[j]))
    /\ store' = UpdateProcessingResults(store, j, CompletionFields(results[j]))
    /\ writes' = [writes EXCEPT ![j] = Append(@, "completed")]
    /\ exc' = [exc EXCEPT ![j] = StoreError]
    /\ raised' = [raised EXCEPT ![j] = Append(@, StoreError)]
    /\ results' = [results EXCEPT ![j] = NoResults]
    /\ pc' = [pc EXCEPT ![j] = AfterRaise(pc[j])]
    /\ UNCHANGED <<nextId, cfg, sub, invoked, observed, response, aux>>

\* The completion write raises: the store is unavailable, or the UPDATE
\* puts NULL into a NOT NULL column.
WriteCompletedRaise(j) ==
    /\ pc[j] = "w_complete"
    /\ \E e \in IF ViolatesNotNull(CompletionFields(results[j]))
                THEN {NotNullError} ELSE {StoreError} :
         /\ exc' = [exc EXCEPT ![j] = e]
         /\ raised' = [raised EXCEPT ![j] = Append(@, e)]
    /\ results' = [results EXCEPT ![j] = NoResults]
    /\ pc' = [pc EXCEPT ![j] = AfterRaise(pc[j])]
    /\ UNCHANGED <<store, nextId, cfg, sub, invoked, writes, observed, response, aux>>

ErrorWritePositions == {"w_load", "w_noresults", "w_inner", "w_outer"}

\* Faulty variant: the handlers write a fixed text, without str(e).
ErrorMessageWithoutException(p, e) ==
    IF p = "w_load" THEN Some(LoadMsg) ELSE Some(NoResultsMsg)

\* The error_message of the update_processing_status call at position p.
ErrorMessage(p, e) ==
    CASE p = "w_load"      -> Some(LoadMsg)
      [] p = "w_noresults" -> Some(NoResultsMsg)
      [] p = "w_inner"     -> Some(ProcMsg(e))
      [] p = "w_outer"     -> Some(ProcMsg(e))

\* Faulty variant: the load-error branch lacks its `return`, the task goes on to
\* the executor after the error write.
WriteErrorNoReturn(j) ==
    /\ pc[j] \in ErrorWritePositions
    /\ store' = UpdateProcessingStatus(store, j, "error", ErrorMessage(pc[j], exc[j]))
    /\ writes' = [writes EXCEPT ![j] = Append(@, "error")]
    /\ exc' = [exc EXCEPT ![j] = ""]
    /\ pc' = [pc EXCEPT ![j] = IF pc[j] = "w_load" THEN "queued" ELSE "done"]
    /\ UNCHANGED <<nextId, cfg, sub, results, invoked, raised, observed, response, aux>>

\* An update_processing_status(id, "error", ...) of the task succeeds.
WriteError(j) ==
    /\ pc[j] \in ErrorWritePositions
    /\ store' = UpdateProcessingStatus(store, j, "error", ErrorMessage(pc[j], exc[j]))
    /\ writes' = [writes EXCEPT ![j] = Append(@, "error")]
    /\ exc' = [exc EXCEPT ![j] = ""]
    /\ pc' = [pc EXCEPT ![j] = "done"]
    /\ UNCHANGED <<nextId, cfg, sub, results, invoked, raised, observed, response, aux>>

\* An update_processing_status of the task raises SQLAlchemyError.
WriteErrorRaise(j) ==
    /\ pc[j] \in ErrorWritePositions
    /\ exc' = [exc EXCEPT ![j] = StoreError]
    /\ raised' = [raised EXCEPT ![j] = Append(@, StoreError)]
    /\ pc' = [pc EXCEPT ![j] = AfterRaise(pc[j])]
    /\ UNCHANGED <<store, nextId, cfg, sub, results, invoked, writes, observed, response, aux>>

\* _handle_task_exception, the task's done callback, called by the running
\* event loop.  For a task that ended without an exception task.exception()
\* is None and the callback does nothing.  With an exception on the task it
\* calls loop.run_until_complete on that running loop, which raises
\* RuntimeError before the status update is started; the handler logs it.
HandleTaskException(j) ==
    /\ pc[j] = "escaped"
    /\ pc' = [pc EXCEPT ![j] = "callback_done"]
    /\ exc' = [exc EXCEPT ![j] = LoopRunningError]
    /\ UNCHANGED <<store, nextId, cfg, sub, results, invoked, raised, writes,
                   observed, response, aux>>

-----------------------------------------------------------------------------
(* Reads *)

\* db.get_processing_results: the row's status, or no row.
ReadStatus(st, id) == IF st[id].present THEN st[id].status ELSE "notfound"

\* A read of job j.  The history keeps what the reads of j returned from
\* the first one on that returned a terminal status.
GetProcessingResults(j) ==
    /\ ReadStatus(store, j) \in TerminalStatuses \/ observed[j] # "unread"
    /\ observed' = [observed EXCEPT ![j] = ReadStatus(store, j)]
    /\ observed'[j] # observed[j]
    /\ UNCHANGED <<store, nextId, cfg, sub, pc, results, exc, invoked, raised,
                   writes, response, aux>>

-----------------------------------------------------------------------------
(* POST /process (routes/processor_routes.py) and ProcessorService *)

\* Request validation rejects the body before the handler runs.
PostProcessUnprocessable(d) ==
    /\ ~BodyValidates(d)
    /\ response' = [dataset_id |-> d, code |-> 422, id |-> 0]
    /\ UNCHANGED <<store, nextId, cfg, sub, pc, results, exc, invoked, raised,
                   writes, observed, aux>>

\* Faulty variant: the dataset_id test comes after the call of
\* processor_service.process_dataset, which stored the initial record.
PostProcessNoDatasetIdAfterSave(d) ==
    /\ BodyValidates(d)
    /\ DatasetIdMissing(d)
    /\ nextId < MaxJobs
    /\ LET id == nextId + 1
           c == [dataset_id |-> d.v, fs_method |-> "auto"]
       IN  /\ nextId' = id
           /\ cfg' = [cfg EXCEPT ![id] = c]
           /\ store' = SaveProcessingResults(store, id, InitialResult(c))
           /\ writes' = [writes EXCEPT ![id] = Append(@, "create")]
           /\ sub' = [sub EXCEPT ![id] = "route_raised"]
           /\ pc' = [pc EXCEPT ![id] = "never_awaited"]
    /\ response' = [dataset_id |-> d,
                    code |-> ProcessRouteExcept(HTTPException(400)).status_code,
                    id |-> 0]
    /\ UNCHANGED <<results, exc, invoked, raised, observed, aux>>

\* The handler raises HTTPException(400) inside its try body.
PostProcessNoDatasetId(d) ==
    /\ BodyValidates(d)
    /\ DatasetIdMissing(d)
    /\ response' = [dataset_id |-> d,
                    code |-> ProcessRouteExcept(HTTPException(400)).status_code,
                    id |-> 0]
    /\ UNCHANGED <<store, nextId, cfg, sub, pc, results, exc, invoked, raised,
                   writes, observed, aux>>

\* ProcessorService.process_dataset: a fresh id, the INSERT of the initial
\* result, then `self._process_dataset_task(...)`, a coroutine object that
\* is neither awaited nor scheduled; the id is returned.
PostProcessAccepted(d, fs) ==
    /\ BodyValidates(d)
    /\ ~DatasetIdMissing(d)
    /\ nextId < MaxJobs
    /\ LET id == nextId + 1
           c == [dataset_id |-> d.v, fs_method |-> fs]
       IN  /\ nextId' = id
           /\ cfg' = [cfg EXCEPT ![id] = c]
           /\ store' = SaveProcessingResults(store, id, InitialResult(c))
           /\ writes' = [writes EXCEPT ![id] = Append(@, "create")]
           /\ sub' = [sub EXCEPT ![id] = "route_returned"]
           /\ pc' = [pc EXCEPT ![id] = "never_awaited"]
           /\ response' = [dataset_id |-> d, code |-> 200, id |-> id]
    /\ UNCHANGED <<results, exc, invoked, raised, observed, aux>>

\* The INSERT raises: the handler's except clause answers.
PostProcessStoreError(d, fs) ==
    /\ BodyValidates(d)
    /\ ~DatasetIdMissing(d)
    /\ nextId < MaxJobs
    /\ nextId' = nextId + 1
    /\ cfg' = [cfg EXCEPT ![nextId + 1] = [dataset_id |-> d.v, fs_method |-> fs]]
    /\ sub' = [sub EXCEPT ![nextId + 1] = "route_raised"]
    /\ response' = [dataset_id |-> d,
                    code |-> ProcessRouteExcept(SQLAlchemyError).status_code,
                    id |-> 0]
    /\ UNCHANGED <<store, pc, results, exc, invoked, raised, writes, observed, aux>>

-----------------------------------------------------------------------------
(* GET /process/{processing_id} and its sub-views (routes/processor_routes.py) *)

AttributeError == [kind |-> "AttributeError", status_code |-> 0]

\* The except clauses of the read handlers: `except HTTPException: raise`,
\* then `except Exception` raising HTTPException(500).
ReadRouteExcept(e) == IF e.kind = "HTTPException" THEN e ELSE HTTPException(500)

\* ProcessorService.get_processing_results: the record as a ProcessingResult,
\* None when there is no row and None when the read raises, be it the SELECT
\* (SQLAlchemyError) or ProcessingResult(**result) (ValidationError): both
\* are inside the one `try` whose `except Exception` returns None.
ServiceGetProcessingResults(st, id, readFails) ==
    IF readFails \/ ~st[id].present THEN NoRow ELSE st[id]

\* The metrics ValidationMetrics declares as float or int.
NumericMetrics ==
    { "performance_original", "performance_transformed", "performance_diff",
      "performance_diff_pct", "feature_reduction", "original_n_features" }

\* Stored values the model's float / int validation accepts.
NumberTexts == {"0.93", "0"}

\* ValidationMetrics(...) or the arithmetic before it raises for this dict.
MalformedMetrics(d) ==
    \E i \in 1..Len(d) : d[i][1] \in NumericMetrics /\ d[i][2] \notin NumberTexts

\* Faulty variant: the formatter has no try / except.
FormatValidationMetricsUnguarded(validation_results) ==
    IF ~Truthy(validation_results)
    THEN [raised |-> FALSE, metrics |-> NullStr]
    ELSE IF MalformedMetrics(validation_results.v)
    THEN [raised |-> TRUE, metrics |-> NullStr]
    ELSE [raised |-> FALSE,
          metrics |-> IF HasKey(validation_results.v, "best_choice")
                      THEN DictGet(validation_results.v, "best_choice")
                      ELSE Some("original")]

\* format_validation_metrics: None for `not validation_results`; otherwise
\* the ValidationMetrics built with .get defaults (best_choice 'original'),
\* or None when building it raises.  The model keeps its best_choice.
FormatValidationMetrics(validation_results) ==
    IF ~Truthy(validation_results)
    THEN [raised |-> FALSE, metrics |-> NullStr]
    ELSE IF MalformedMetrics(validation_results.v)
    THEN [raised |-> FALSE, metrics |-> NullStr]
    ELSE [raised |-> FALSE,
          metrics |-> IF HasKey(validation_results.v, "best_choice")
                      THEN DictGet(validation_results.v, "best_choice")
                      ELSE Some("original")]

\* The fragments of the summary: the status-specific text, followed for a
\* completed job with formatted metrics by the validation recommendation.
Summary(result, validation_metrics) ==
    IF result.status = "completed"
    THEN IF validation_metrics.isNull
         THEN <<"completed">>
         ELSE <<"completed", "validation">>
    ELSE IF result.status = "error" THEN <<"error">> ELSE <<"processing">>

\* Faulty variant: the service lets the exception of a failed read through,
\* and the handler's `except Exception` answers it.
GetProcessingResultServiceReraises(j, readFails) ==
    /\ LET result == ServiceGetProcessingResults(store, j, FALSE)
           formatted == FormatValidationMetrics(result.validation_results)
       IN  reply' =
             IF readFails
             THEN [route |-> "result", id |-> j, body |-> Null,
                   status |-> "read_failed",
                   code |-> ReadRouteExcept(SQLAlchemyError).status_code]
             ELSE IF ~result.present
             THEN [route |-> "result", id |-> j, body |-> Null, status |-> "",
                   code |-> ReadRouteExcept(HTTPException(404)).status_code]
             ELSE IF formatted.raised
             THEN [route |-> "result", id |-> j, body |-> Null, status |-> "",
                   code |-> ReadRouteExcept(AttributeError).status_code]
             ELSE [route |-> "result", id |-> j, status |-> result.status,
                   body |-> Some(Summary(result, formatted.metrics)),
                   code |-> 200]
    /\ reply' # reply
    /\ UNCHANGED <<store, nextId, cfg, sub, pc, results, exc, invoked, raised,
                   writes, observed, response, clock, stamps, column_stats,
                   extracted, returned, pyplot, gateway>>

\* get_processing_result: 404 for `not result`, otherwise the record's id,
\* dataset_id and status with the summary; 500 for any other exception.
GetProcessingResult(j, readFails) ==
    /\ LET result == ServiceGetProcessingResults(store, j, readFails)
           formatted == FormatValidationMetrics(result.validation_results)
       IN  reply' =
             IF ~result.present
             THEN [route |-> "result", id |-> j, body |-> Null,
                   status |-> IF readFails THEN "read_failed" ELSE "",
                   code |-> ReadRouteExcept(HTTPException(404)).status_code]
             ELSE IF formatted.raised
             THEN [route |-> "result", id |-> j, body |-> Null, status |-> "",
                   code |-> ReadRouteExcept(AttributeError).status_code]
             ELSE [route |-> "result", id |-> j, status |-> result.status,
                   body |-> Some(Summary(result, formatted.metrics)),
                   code |-> 200]
    /\ reply' # reply
    /\ UNCHANGED <<store, nextId, cfg, sub, pc, results, exc, invoked, raised,
                   writes, observed, response, clock, stamps, column_stats,
                   extracted, returned, pyplot, gateway>>

\* The body of a sub-view handler for report field f: 404 for `not result`,
\* [] for a report that is None or empty, else `[x.dict() for x in report]`.
\* The items of a stored report are JSON objects, read back as dict, and a
\* dict has no attribute `dict`: the comprehension raises AttributeError.
SubViewAnswer(result, f) ==
    IF ~result.present
    THEN [code |-> ReadRouteExcept(HTTPException(404)).status_code, body |-> Null]
    ELSE IF ~Truthy(result[f])
    THEN [code |-> 200, body |-> Some(<<>>)]
    ELSE [code |-> ReadRouteExcept(AttributeError).status_code, body |-> Null]

\* get_missing_values_report, get_outliers_report, get_feature_importance and
\* get_transformations.
GetSubView(j, f, readFails) ==
    /\ LET result == ServiceGetProcessingResults(store, j, readFails)
           answer == SubViewAnswer(result, f)
       IN  reply' = [route |-> f, id |-> j,
                     status |-> IF readFails THEN "read_failed" ELSE "",
                     body |-> answer.body, code |-> answer.code]
    /\ reply' # reply
    /\ UNCHANGED <<store, nextId, cfg, sub, pc, results, exc, invoked, raised,
                   writes, observed, response, clock, stamps, column_stats,
                   extracted,
                   returned, pyplot, gateway>>

-----------------------------------------------------------------------------
(* The timestamps of the initial result (process_dataset) *)

\* Time passes between two statements.
ClockTick ==
    /\ clock < MaxClock
    /\ clock' = clock + 1
    /\ UNCHANGED <<store, nextId, cfg, sub, pc, results, exc, invoked, raised,
                   writes, observed, response, reply, stamps, column_stats,
                   extracted,
                   returned, pyplot, gateway>>

\* `created_at=datetime.now()`: the first argument of the ProcessingResult
\* built for the id just generated.
ReadCreatedAt ==
    /\ nextId < MaxJobs
    /\ stamps[nextId + 1].created_at.isNull
    /\ stamps' = [stamps EXCEPT ![nextId + 1].created_at = [isNull |-> FALSE, v |-> clock]]
    /\ UNCHANGED <<store, nextId, cfg, sub, pc, results, exc, invoked, raised,
                   writes, observed, response, reply, clock, column_stats,
                   extracted,
                   returned, pyplot, gateway>>

\* `updated_at=datetime.now()`: the next argument, a second reading.
ReadUpdatedAt ==
    /\ nextId < MaxJobs
    /\ ~stamps[nextId + 1].created_at.isNull
    /\ stamps[nextId + 1].updated_at.isNull
    /\ stamps' = [stamps EXCEPT ![nextId + 1].updated_at = [isNull |-> FALSE, v |-> clock]]
    /\ UNCHANGED <<store, nextId, cfg, sub, pc, results, exc, invoked, raised,
                   writes, observed, response, reply, clock, column_stats,
                   extracted,
                   returned, pyplot, gateway>>

\* The call goes on to the INSERT once the initial result is built.
StampedProcessDatasetCall(c) ==
    /\ nextId < MaxJobs
    /\ ~stamps[nextId + 1].updated_at.isNull
    /\ ProcessDatasetCall(c)

-----------------------------------------------------------------------------
(* ProcessorService: extraction of the reports *)

ColumnIndexes == [i \in 1..Len(Columns) |-> i]

\* _extract_missing_values_report: one entry per column of df, in order,
\* `if missing_count > 0 or strategy != 'none'`.
ExtractMissingValuesReport(cs) ==
    LET kept == SelectSeq(ColumnIndexes,
                    LAMBDA i : cs[i].missing_count > 0
                               \/ cs[i].imputation_strategy # "none")
    IN  [ k \in 1..Len(kept) |->
            [ column           |-> Columns[kept[k]],
              missing_count    |-> cs[kept[k]].missing_count,
              strategy_applied |-> cs[kept[k]].imputation_strategy ] ]

\* _extract_outliers_report: one entry per numeric column of df, in order,
\* `if outliers_count > 0`.
ExtractOutliersReport(cs) ==
    LET kept == SelectSeq(ColumnIndexes,
                    LAMBDA i : cs[i].numeric /\ cs[i].outliers_count > 0)
    IN  [ k \in 1..Len(kept) |->
            [ column         |-> Columns[kept[k]],
              outliers_count |-> cs[kept[k]].outliers_count ] ]

\* missing_values_report = self._extract_missing_values_report(pipeline, df)
ReportMissingValues ==
    /\ extracted.missing_values_report.isNull
    /\ extracted' = [extracted EXCEPT !.missing_values_report =
                        Some(ExtractMissingValuesReport(column_stats))]
    /\ UNCHANGED <<store, nextId, cfg, sub, pc, results, exc, invoked, raised,
                   writes, observed, response, reply, clock, stamps, column_stats,
                   returned, pyplot, gateway>>

\* outliers_report = self._extract_outliers_report(pipeline, df)
ReportOutliers ==
    /\ ~extracted.missing_values_report.isNull
    /\ extracted.outliers_report.isNull
    /\ extracted' = [extracted EXCEPT !.outliers_report =
                        Some(ExtractOutliersReport(column_stats))]
    /\ UNCHANGED <<store, nextId, cfg, sub, pc, results, exc, invoked, raised,
                   writes, observed, response, reply, clock, stamps, column_stats,
                   returned, pyplot, gateway>>

\* A pipeline fitted on a frame of Columns, with any statistics.
ReportInit ==
    /\ ServiceInit
    /\ clock = 0
    /\ column_stats \in [1..Len(Columns) -> ColStats]
    /\ extracted = NoReports
    /\ pyplot = NoFigures
    /\ gateway = NoGateway

ReportNext == ReportMissingValues \/ ReportOutliers

ReportSpec == ReportInit /\ [][ReportNext]_vars

-----------------------------------------------------------------------------
(* database/db.py: update_processing_status called directly *)

\* The arguments the calls are made with.
CallStatuses == {"completed", "error"}
CallMessages == {Null, Some(LoadMsg)}

\* Faulty variant: update_dict lacks "updated_at".
UpdateProcessingStatusCallKeepsUpdatedAt(id, status, msg) ==
    /\ store' = UpdateProcessingStatus(store, id, status, msg)
    /\ returned' = [op |-> "update_processing_status", id |-> id,
                    status |-> status, msg |-> msg, value |-> "True"]
    /\ UNCHANGED <<nextId, cfg, sub, pc, results, exc, invoked, raised, writes,
                   observed, response, reply, clock, stamps, column_stats,
                   extracted, pyplot, gateway>>

\* update_processing_status(id, status, msg) with a store that answers: the
\* UPDATE sets status, updated_at = datetime.now() and, for a truthy msg,
\* error_message, on the rows WHERE id matches (none, for an unknown id);
\* the function commits and returns True.
UpdateProcessingStatusCall(id, status, msg) ==
    /\ store' = UpdateProcessingStatus(store, id, status, msg)
    /\ stamps' = IF store[id].present
                 THEN [stamps EXCEPT ![id].updated_at = [isNull |-> FALSE, v |-> clock]]
                 ELSE stamps
    /\ returned' = [op |-> "update_processing_status", id |-> id,
                    status |-> status, msg |-> msg, value |-> "True"]
    /\ UNCHANGED <<nextId, cfg, sub, pc, results, exc, invoked, raised, writes,
                   observed, response, reply, clock, column_stats, extracted,
                   pyplot, gateway>>

\* The UPDATE raises SQLAlchemyError: rollback, the exception is re-raised.
UpdateProcessingStatusCallRaises(id, status, msg) ==
    /\ returned' = [op |-> "update_processing_status", id |-> id,
                    status |-> status, msg |-> msg, value |-> "SQLAlchemyError"]
    /\ UNCHANGED <<store, nextId, cfg, sub, pc, results, exc, invoked, raised,
                   writes, observed, response, reply, clock, stamps,
                   column_stats, extracted, pyplot, gateway>>

-----------------------------------------------------------------------------
(* Files a job writes under PROCESSED_FOLDER *)

\* os.path.join(settings.PROCESSED_FOLDER, f"{dataset_id}_original.csv")
OriginalPath(dataset_id) == <<"PROCESSED_FOLDER", dataset_id, "_original.csv">>

\* os.path.join(settings.PROCESSED_FOLDER, processing_id)
ReportFolder(processing_id) == <<"PROCESSED_FOLDER", ToString(processing_id)>>

\* os.path.join(report_folder, f"{config.dataset_id}_transformed.csv")
TransformedPath(processing_id, dataset_id) ==
    ReportFolder(processing_id) \o <<dataset_id, "_transformed.csv">>

\* fetch_dataset has returned the frame: df.to_csv(file_path) was executed.
FetchWrote(j) == pc[j] \notin {"none", "created"} /\ ~FetchFails(cfg[j])

\* The function on the executor has returned its results: the transformed
\* dataset was written before the reports were built.
ExecutorWrote(j) ==
    \/ results[j] # NoResults
    \/ \E i \in 1..Len(writes[j]) : writes[j][i] = "completed"

\* The paths job j has written so far.
FilesWritten(j) ==
    (IF FetchWrote(j) THEN {OriginalPath(cfg[j].dataset_id)} ELSE {})
    \cup
    (IF ExecutorWrote(j) THEN {TransformedPath(j, cfg[j].dataset_id)} ELSE {})

-----------------------------------------------------------------------------
(* The figures of _process_data_sync / _process_data_with_explorer *)

\* pyplot numbers a new figure max(open numbers) + 1, or 1.
NextNumber(figs) ==
    IF figs = <<>> THEN 1
    ELSE (CHOOSE n \in {figs[i].number : i \in 1..Len(figs)} :
            \A i \in 1..Len(figs) : figs[i].number <= n) + 1

\* The open figures without figure n.
WithoutFigure(figs, n) == SelectSeq(figs, LAMBDA f : f.number # n)

\* plt.gcf(): the figure activated last.
CurrentFigure(figs) == figs[Len(figs)]

\* The open figure of number n.
FigureOfNumber(figs, n) ==
    CHOOSE f \in {figs[i] : i \in 1..Len(figs)} : f.number = n

\* plt.savefig(path) of a run whose figure has number n: pyplot saves the
\* current figure, whatever n is.
SavedFigure(figs, n) == CurrentFigure(figs)

\* fig = visualizer.visualize_...(report): a new figure, made current.
Visualize(j) ==
    /\ pyplot.pc[j] = "report"
    /\ pyplot.done[j] < Len(Plots)
    /\ LET n == NextNumber(pyplot.figs)
       IN  pyplot' = [pyplot EXCEPT
                        !.figs = Append(@, [number |-> n, owner |-> j,
                                            plot |-> Plots[pyplot.done[j] + 1]]),
                        !.fig[j] = n,
                        !.pc[j] = "drawn"]
    /\ UNCHANGED <<store, nextId, cfg, sub, pc, results, exc, invoked, raised,
                   writes, observed, response, reply, clock, stamps,
                   column_stats, extracted, returned, gateway>>

\* plt.figure(fig.number): the open figure of that number becomes current.
SelectFigure(j) ==
    /\ pyplot.pc[j] = "drawn"
    /\ LET n == pyplot.fig[j]
           f == FigureOfNumber(pyplot.figs, n)
       IN  pyplot' = [pyplot EXCEPT
                        !.figs = Append(WithoutFigure(@, n), f),
                        !.pc[j] = "selected"]
    /\ UNCHANGED <<store, nextId, cfg, sub, pc, results, exc, invoked, raised,
                   writes, observed, response, reply, clock, stamps,
                   column_stats, extracted, returned, gateway>>

\* plt.savefig(os.path.join(report_folder, name)).
SaveFig(j) ==
    /\ pyplot.pc[j] = "selected"
    /\ pyplot' = [pyplot EXCEPT
                    !.saved[j] = Append(@,
                        [ path   |-> ReportFolder(j) \o <<Plots[pyplot.done[j] + 1]>>,
                          figure |-> SavedFigure(pyplot.figs, pyplot.fig[j]) ]),
                    !.pc[j] = "saved"]
    /\ UNCHANGED <<store, nextId, cfg, sub, pc, results, exc, invoked, raised,
                   writes, observed, response, reply, clock, stamps,
                   column_stats, extracted, returned, gateway>>

\* plt.close(fig): the figure is removed from the open figures.
CloseFig(j) ==
    /\ pyplot.pc[j] = "saved"
    /\ pyplot' = [pyplot EXCEPT
                    !.figs = WithoutFigure(@, pyplot.fig[j]),
                    !.fig[j] = 0,
                    !.done[j] = @ + 1,
                    !.pc[j] = "report"]
    /\ UNCHANGED <<store, nextId, cfg, sub, pc, results, exc, invoked, raised,
                   writes, observed, response, reply, clock, stamps,
                   column_stats, extracted, returned, gateway>>

\* The runs are on the workers of the loop's default executor, a thread
\* pool: their statements interleave.
PlotNext ==
    \/ \E j \in JobIds : Visualize(j)
    \/ \E j \in JobIds : SelectFigure(j)
    \/ \E j \in JobIds : SaveFig(j)
    \/ \E j \in JobIds : CloseFig(j)

PlotSpec == Init /\ [][PlotNext]_vars

-----------------------------------------------------------------------------
(* rate_limiter_middleware (gateway-api) *)

\* any(path.startswith(route) for route in EXCLUDED_ROUTES)
StartsWith(path, route) ==
    Len(path) >= Len(route) /\ SubSeq(path, 1, Len(route)) = route
Excluded(path) == \E route \in EXCLUDED_ROUTES : StartsWith(path, route)

\* while records and records[0] < current_time - WINDOW: records.popleft()
\* (time.time() is a float: the difference may be negative).
RECURSIVE PopOld(_, _, _)
PopOld(records, current_time, window) ==
    IF records # <<>> /\ records[1] + window < current_time
    THEN PopOld(Tail(records), current_time, window)
    ELSE records

\* deque.append on a deque with maxlen: when the deque is full the item at
\* the left end is discarded.
DequeAppend(records, x) ==
    IF Len(records) >= DequeMaxLen
    THEN Append(Tail(records), x)
    ELSE Append(records, x)

\* The admitted requests of the history `times` in the window [from, to].
InWindow(times, from, to) ==
    Cardinality({i \in 1..Len(times) : from <= times[i] /\ times[i] <= to})

\* time.time() advances.
GatewayTick ==
    /\ gateway.time < MaxTime
    /\ gateway' = [gateway EXCEPT !.time = @ + 1]
    /\ UNCHANGED <<store, nextId, cfg, sub, pc, results, exc, invoked, raised,
                   writes, observed, response, reply, clock, stamps,
                   column_stats, extracted, returned, pyplot>>

\* A request for an excluded route is passed on unseen.
RequestExcluded(ip, path) ==
    /\ gateway.requests < MaxRequests
    /\ Excluded(path)
    /\ gateway' = [gateway EXCEPT
                     !.requests = @ + 1,
                     !.last = [ip |-> ip, excluded |-> TRUE, code |-> 200,
                               inWindow |-> 0, recorded |-> FALSE]]
    /\ UNCHANGED <<store, nextId, cfg, sub, pc, results, exc, invoked, raised,
                   writes, observed, response, reply, clock, stamps,
                   column_stats, extracted, returned, pyplot>>

\* A request for any other route.  From time.time() to the end of the
\* `async with rate_limit_lock` block there is no suspension (the lock is
\* free whenever a request runs: its block awaits nothing), so prune, test
\* and append are one step of the event loop.
RequestLimited(ip, path) ==
    /\ gateway.requests < MaxRequests
    /\ ~Excluded(path)
    /\ LET current_time == gateway.time
           window  == gateway.RATE_LIMIT_WINDOW
           records == PopOld(gateway.request_records[ip], current_time, window)
           before  == IF current_time >= window
                      THEN InWindow(gateway.admitted[ip], current_time - window, current_time)
                      ELSE InWindow(gateway.admitted[ip], 0, current_time)
       IN  IF Len(records) >= gateway.RATE_LIMIT_REQUESTS
           THEN gateway' = [gateway EXCEPT
                  !.requests = @ + 1,
                  !.request_records[ip] = records,
                  !.last = [ip |-> ip, excluded |-> FALSE, code |-> 429,
                            inWindow |-> before, recorded |-> FALSE]]
           ELSE gateway' = [gateway EXCEPT
                  !.requests = @ + 1,
                  !.request_records[ip] = DequeAppend(records, current_time),
                  !.admitted[ip] = Append(@, current_time),
                  !.last = [ip |-> ip, excluded |-> FALSE, code |-> 200,
                            inWindow |-> before, recorded |-> TRUE]]
    /\ UNCHANGED <<store, nextId, cfg, sub, pc, results, exc, invoked, raised,
                   writes, observed, response, reply, clock, stamps,
                   column_stats, extracted, returned, pyplot>>

\* A gateway started with some configured limit and window.
GatewayInit ==
    /\ ServiceInit
    /\ clock = 0
    /\ column_stats = NoStats
    /\ extracted = NoReports
    /\ pyplot = NoFigures
    /\ gateway \in {Limiter(l, w) : l \in RateLimits, w \in RateWindows}

GatewayNext ==
    \/ GatewayTick
    \/ \E ip \in ClientIps, path \in RequestPaths : RequestExcluded(ip, path)
    \/ \E ip \in ClientIps, path \in RequestPaths : RequestLimited(ip, path)

GatewaySpec == GatewayInit /\ [][GatewayNext]_vars

-----------------------------------------------------------------------------

Next ==
    \/ \E c \in Configs : ProcessDatasetCall(c)
    \/ \E j \in JobIds : ProcessDatasetReturn(j)
    \/ \E j \in JobIds : ProcessDatasetRaise(j)
    \/ \E j \in JobIds : TaskStart(j)
    \/ \E j \in JobIds : ExecutorStart(j)
    \/ \E j \in JobIds : ExecutorReturn(j)
    \/ \E j \in JobIds : ExecutorRaise(j)
    \/ \E j \in JobIds : WriteCompleted(j)
    \/ \E j \in JobIds : WriteCompletedRaise(j)
    \/ \E j \in JobIds : WriteError(j)
    \/ \E j \in JobIds : WriteErrorRaise(j)
    \/ \E j \in JobIds : HandleTaskException(j)
    \/ \E j \in JobIds : GetProcessingResults(j)

Spec == Init /\ [][Next]_vars

\* The HTTP surface of the service: POST /process.
RouteNext ==
    \/ \E d \in RequestDatasetIds : PostProcessNoDatasetId(d)
    \/ \E d \in RequestDatasetIds : PostProcessUnprocessable(d)
    \/ \E d \in RequestDatasetIds, fs \in FsMethods : PostProcessAccepted(d, fs)
    \/ \E d \in RequestDatasetIds, fs \in FsMethods : PostProcessStoreError(d, fs)

RouteSpec == Init /\ [][RouteNext]_vars

\* Submissions with every combination of the exploration flags, followed up
\* to the choice of the function that runs on the executor.
PathNext ==
    \/ \E c \in ExploreConfigs : ProcessDatasetCall(c)
    \/ \E j \in JobIds : ProcessDatasetReturn(j)
    \/ \E j \in JobIds : TaskStart(j)
    \/ \E j \in JobIds : ExecutorStart(j)

PathSpec == Init /\ [][PathNext]_vars

\* Submissions with the clock readings of the initial result.
TimeNext ==
    \/ ClockTick
    \/ ReadCreatedAt
    \/ ReadUpdatedAt
    \/ \E c \in Configs : StampedProcessDatasetCall(c)
    \/ \E j \in JobIds : ProcessDatasetReturn(j)

TimeSpec == Init /\ [][TimeNext]_vars

\* Submissions with their timestamps, and update_processing_status called
\* with any id, whether it has a record or not.
StoreNext ==
    \/ TimeNext
    \/ \E id \in JobIds, status \in CallStatuses, msg \in CallMessages :
          UpdateProcessingStatusCall(id, status, msg)
    \/ \E id \in JobIds, status \in CallStatuses, msg \in CallMessages :
          UpdateProcessingStatusCallRaises(id, status, msg)

StoreSpec == Init /\ [][StoreNext]_vars

\* The service, for submissions whose dataset is uploaded, together with the
\* read routes over the same table.
ReadNext ==
    \/ \E c \in {x \in Configs : x.dataset_id \in Uploaded} : ProcessDatasetCall(c)
    \/ \E j \in JobIds : ProcessDatasetReturn(j)
    \/ \E j \in JobIds : ProcessDatasetRaise(j)
    \/ \E j \in JobIds : TaskStart(j)
    \/ \E j \in JobIds : ExecutorStart(j)
    \/ \E j \in JobIds : ExecutorReturn(j)
    \/ \E j \in JobIds : ExecutorRaise(j)
    \/ \E j \in JobIds : WriteCompleted(j)
    \/ \E j \in JobIds : WriteCompletedRaise(j)
    \/ \E j \in JobIds : WriteError(j)
    \/ \E j \in JobIds : WriteErrorRaise(j)
    \/ \E j \in JobIds : HandleTaskException(j)
    \/ \E j \in JobIds, readFails \in BOOLEAN : GetProcessingResult(j, readFails)
    \/ \E j \in JobIds, f \in SubViews, readFails \in BOOLEAN :
          GetSubView(j, f, readFails)

ReadSpec == Init /\ [][ReadNext]_vars


\* Every step of the background execution of job j.  The event loop and the
\* executor keep running a task that can take a step; whether a store write
\* succeeds or raises is the store's choice, so fairness is on the attempt.
TaskStep(j) ==
    \/ TaskStart(j)
    \/ ExecutorStart(j)
    \/ ExecutorReturn(j)
    \/ ExecutorRaise(j)
    \/ WriteCompleted(j)
    \/ WriteCompletedRaise(j)
    \/ WriteError(j)
    \/ WriteErrorRaise(j)
    \/ HandleTaskException(j)

FairSpec ==
    /\ Init /\ [][Next]_vars
    /\ \A j \in JobIds : WF_vars(ProcessDatasetReturn(j) \/ ProcessDatasetRaise(j))
    /\ \A j \in JobIds : WF_vars(TaskStep(j))

\* The route's service under the same scheduling: a background task that
\* can take a step is run.
FairRouteSpec ==
    /\ Init /\ [][RouteNext]_vars
    /\ \A j \in JobIds : WF_vars(TaskStep(j))

-----------------------------------------------------------------------------
(* Helpers of the properties *)

Last(seq) == seq[Len(seq)]

\* Store write attempts of job j's task that raised.
FailedWrites(j) ==
    Cardinality({i \in 1..Len(raised[j]) : raised[j][i] \in {StoreError, NotNullError}})

\* The task of job j has ended (returned, or left by an exception).
TaskEnded(j) == pc[j] \in {"done", "escaped", "callback_done"}

\* Job j was submitted through ProcessorUploadService.process_dataset,
\* which returned its id.
Submitted(j) == sub[j] = "returned"

-----------------------------------------------------------------------------
(* C1 *)

StatusInDomain ==
    \A j \in JobIds :
        store[j].present => store[j].status \in {"processing", "completed", "error"}

StatusStep ==
    \A j \in JobIds :
        /\ (~store[j].present /\ store'[j].present) => store'[j].status = "processing"
        /\ (store[j].present /\ store'[j].status # store[j].status) =>
               /\ store[j].status = "processing"
               /\ store'[j].status \in TerminalStatuses
        /\ observed[j] \in TerminalStatuses => observed'[j] = observed[j]

\* C1: the stored status of a job is always processing, completed or error;
\* a job starts in processing; the only status changes are
\* processing -> completed and processing -> error; once a read returned
\* completed or error, every later read of the job returns the same status.
C1_StatusLifecycle == [](StatusInDomain) /\ [][StatusStep]_vars

\* A read returned a terminal status for a job whose task has ended.
C1_Witness == \E j \in JobIds : observed[j] \in TerminalStatuses /\ TaskEnded(j)

-----------------------------------------------------------------------------
(* C2 *)

\* C2: under fair scheduling every submitted job eventually has status
\* completed or error.
C2_EveryJobTerminates ==
    \A j \in JobIds :
        Submitted(j) ~> (store[j].status \in TerminalStatuses)

-----------------------------------------------------------------------------
(* C3 *)

CompletionReportFields ==
    { "validation_results", "missing_values_report", "outliers_report",
      "feature_importance", "transformations_applied" }

\* C3: a job record whose status is completed has validation_results,
\* missing_values_report, outliers_report, feature_importance and
\* transformations_applied all present (none null).
C3_CompletedReportsPresent ==
    \A j \in JobIds :
        (store[j].present /\ store[j].status = "completed") =>
            \A f \in CompletionReportFields : ~store[j][f].isNull

-----------------------------------------------------------------------------
(* C4 *)

\* C4: a job record whose status is not completed (processing, in
\* particular) has every report field empty: reports become non-empty only
\* in the write that sets status = completed.
C4_ReportsOnlyWithCompleted ==
    \A j \in JobIds :
        (store[j].present /\ store[j].status # "completed") =>
            \A f \in ReportFields : ~Truthy(store[j][f])

\* The task holds non-empty reports and is about to write them while the
\* record is still in processing.
C4_Witness ==
    \E j \in JobIds :
        /\ pc[j] = "w_complete"
        /\ Truthy(results[j].missing_values_report)
        /\ store[j].status = "processing"

-----------------------------------------------------------------------------
(* C5 *)

\* C5 as stated: when an exception was raised during the background
\* execution of a job whose task has ended, the job is in status error and
\* its error_message contains the message of the exception that was raised.
C5_ErrorCarriesRaisedMessage ==
    \A j \in JobIds :
        (pc[j] = "done" /\ raised[j] # <<>>) =>
            /\ store[j].status = "error"
            /\ Contains(store[j].error_message.v, raised[j][1])

\* C5 amended: an exception raised by the executor run or by a store write
\* is taken by the task's handlers, whose next write is status = error with
\* the message of that (the latest) exception; a record in status error
\* carries the message of the last exception raised in the task, except
\* that a failed dataset fetch is recorded with the fixed load message and
\* not with the message of the fetch exception.
C5_Amended ==
    \A j \in JobIds :
        /\ pc[j] \in {"w_inner", "w_outer"} =>
              /\ raised[j] # <<>>
              /\ exc[j] = Last(raised[j])
              /\ exc[j] \in {PipelineError, StoreError, NotNullError}
              /\ ErrorMessage(pc[j], exc[j]) = Some(ProcMsg(Last(raised[j])))
        /\ (pc[j] = "done" /\ raised[j] # <<>>) => store[j].status = "error"
        /\ (store[j].present /\ store[j].status = "error") =>
              /\ raised[j] # <<>>
              /\ IF raised[j] = <<FileNotFound>>
                 THEN store[j].error_message = Some(LoadMsg)
                 ELSE /\ store[j].error_message = Some(ProcMsg(Last(raised[j])))
                      /\ Contains(store[j].error_message.v, Last(raised[j]))
                      /\ Last(raised[j]) # FileNotFound

\* A job whose pipeline run raised is in status error with that message.
C5_Witness ==
    \E j \in JobIds :
        /\ raised[j] = <<PipelineError>>
        /\ store[j].status = "error"
        /\ store[j].error_message = Some(ProcMsg(PipelineError))

-----------------------------------------------------------------------------
(* C6 *)

\* C6: a job whose dataset cannot be loaded eventually reaches status error
\* with the message that the dataset could not be loaded; neither the
\* pipeline nor the explorer is invoked for it and it never completes.
C6_MissingDatasetEndsInLoadError ==
    /\ \A j \in JobIds :
         (Submitted(j) /\ FetchFails(cfg[j])) ~>
             (store[j].status = "error" /\ store[j].error_message = Some(LoadMsg))
    /\ [](\A j \in JobIds :
            (Submitted(j) /\ FetchFails(cfg[j])) =>
                (invoked[j] = "none" /\ store[j].status # "completed"))

-----------------------------------------------------------------------------
(* C7 *)

\* C7: process_dataset returns after the initial record (status processing)
\* has been stored and without waiting for the task: the pipeline or the
\* explorer starts only after process_dataset returned, on the executor,
\* and while the call is still running nothing of the task has run.
C7_SubmitReturnsBeforePipeline ==
    \A j \in JobIds :
        /\ Submitted(j) => (store[j].present /\ writes[j][1] = "create")
        /\ (invoked[j] # "none" \/ pc[j] \in {"queued", "running"}) => Submitted(j)
        /\ sub[j] \in {"idle", "saving", "raised"} =>
               (pc[j] = "none" /\ invoked[j] = "none")

\* The pipeline is running on the executor for a submitted job.
C7_Witness == \E j \in JobIds : pc[j] = "running" /\ invoked[j] = "sync"

-----------------------------------------------------------------------------
(* C8 *)

WriteOrderOK ==
    \A j \in JobIds :
        /\ writes[j] \in { <<>>, <<"create">>, <<"create", "completed">>,
                           <<"create", "error">> }
        /\ (TaskEnded(j) /\ FailedWrites(j) <= 1) => Len(writes[j]) = 2

NoWriteAfterTerminal ==
    \A j \in JobIds : Len(writes[j]) = 2 => store'[j] = store[j]

-----------------------------------------------------------------------------
(* C9 *)

ExpectedBestChoice(res) ==
    IF (~res.validation_results.isNull)
        /\ HasKey(res.validation_results.v, "best_choice")
    THEN DictGet(res.validation_results.v, "best_choice")
    ELSE Some("original")

\* C9: on every successful run the best_choice of the completion write is
\* validation_results.best_choice when there is one and "original" in every
\* other case; it is "original" or "transformed", never null.
C9_BestChoiceDefaultsToOriginal ==
    \A j \in JobIds :
        pc[j] = "w_complete" =>
            /\ CompletionFields(results[j]).best_choice = ExpectedBestChoice(results[j])
            /\ CompletionFields(results[j]).best_choice \in
                   {Some("original"), Some("transformed")}

-----------------------------------------------------------------------------
(* C10 *)

\* C10: a POST /process request whose dataset_id is missing or empty is
\* answered with HTTP 400.
C10_MissingDatasetIdIs400 ==
    (response.code # 0 /\ (response.dataset_id.isNull \/ response.dataset_id.v = "")) =>
        response.code = 400

-----------------------------------------------------------------------------
(* C11 *)

\* The request just answered carried no dataset_id (absent or empty).
RejectedSubmission ==
    /\ response' # response
    /\ response'.dataset_id.isNull \/ response'.dataset_id.v = ""

RejectedLeavesStore ==
    RejectedSubmission =>
        /\ store' = store
        /\ nextId' = nextId
        /\ writes' = writes
        /\ pc' = pc
        /\ response'.id = 0
        /\ response'.code # 200

\* C11: a submission without dataset_id leaves the job store unchanged: no
\* job id is generated or returned, no record is created and no background
\* task is scheduled.
C11_RejectedSubmissionLeavesStore == [][RejectedLeavesStore]_vars

\* A submission with an empty dataset_id was refused while the store holds
\* the record of an earlier accepted submission.
C11_Witness ==
    /\ response.code \notin {0, 200}
    /\ ~response.dataset_id.isNull
    /\ response.dataset_id.v = ""
    /\ nextId = 1
    /\ store[1].present

-----------------------------------------------------------------------------
(* C12 *)

\* The step answers a GET /process/{id}.
ResultRead == reply' # reply /\ reply'.route = "result"

ResultReadAnswer ==
    ResultRead =>
        IF store[reply'.id].present
        THEN /\ reply'.code = 200
             /\ reply'.status = store[reply'.id].status
        ELSE reply'.code = 404

\* C12: a read of a job id without a record is answered 404 (NotFound); a
\* read of an id that has a record returns the record's current state,
\* whether the job is still processing or already terminal.
C12_ReadReturnsCurrentState == [][ResultReadAnswer]_vars

-----------------------------------------------------------------------------
(* C13 *)

\* The step answers a sub-view read whose lookup of the record succeeded.
SubViewRead ==
    /\ reply' # reply
    /\ reply'.route \in SubViews
    /\ reply'.status # "read_failed"

\* The list stored in report field f of a row, [] when the field is null.
StoredList(row, f) == IF row[f].isNull THEN <<>> ELSE row[f].v

SubViewReadAnswer ==
    (SubViewRead /\ store[reply'.id].present) =>
        /\ reply'.code = 200
        /\ reply'.body = Some(StoredList(store[reply'.id], reply'.route))

\* C13: for every existing job each of the four sub-view reads succeeds and
\* returns exactly the list stored in the corresponding report field of
\* that job, the empty list when the field is absent or empty.
C13_SubViewReturnsStoredList == [][SubViewReadAnswer]_vars

-----------------------------------------------------------------------------
(* C14 *)

WriteChangesOwnRecordOnly ==
    \A j \in JobIds :
        store'[j] # store[j] =>
            /\ writes'[j] # writes[j]
            /\ \A k \in JobIds \ {j} :
                   store'[k] = store[k] /\ writes'[k] = writes[k]

\* C14: with two or more jobs running concurrently, every store write made
\* on behalf of one job id changes only the record with that id; the record
\* of every other job is left unchanged by it, under every interleaving.
C14_WritesTouchOwnRecordOnly == [][WriteChangesOwnRecordOnly]_vars

\* One job's terminal write has been made while the other job's run is on
\* the executor, its record still in processing.
C14_Witness ==
    \E j, k \in JobIds :
        /\ j # k
        /\ Len(writes[j]) = 2
        /\ store[j].status \in TerminalStatuses
        /\ pc[k] = "running"
        /\ store[k].status = "processing"

-----------------------------------------------------------------------------
(* C15 *)

\* The configurations for which the exploration path is specified.
ExplorationRequested(c) ==
    c.use_auto_explore \/ (c.fs_method = "auto" /\ c.auto_explore)

\* C15: the background run takes the exploration path exactly when
\* use_auto_explore is set, or feature_selection.method is "auto" together
\* with the auto_explore flag; in every other case, a configuration left at
\* its defaults in particular, it takes the direct pipeline path.
C15_ExplorationOnlyWhenRequested ==
    \A j \in JobIds :
        invoked[j] # "none" =>
            /\ invoked[j] = "explorer" <=> ExplorationRequested(cfg[j])
            /\ cfg[j] = DefaultConfig(cfg[j].dataset_id) => invoked[j] = "sync"

-----------------------------------------------------------------------------
(* C16 *)

\* C16: a job's transformation_statistics is non-empty only if the
\* exploration path ran for the job and the job completed; jobs that ran
\* the direct path, failed jobs and jobs still processing have it empty.
C16_StatisticsOnlyAfterExploration ==
    \A j \in JobIds :
        store[j].present =>
            /\ Truthy(store[j].transformation_statistics) =>
                   (invoked[j] = "explorer" /\ store[j].status = "completed")
            /\ (invoked[j] = "sync" \/ store[j].status \in {"processing", "error"}) =>
                   ~Truthy(store[j].transformation_statistics)

\* One job completed on the exploration path with its statistics stored,
\* another completed on the direct path.
C16_Witness ==
    \E j, k \in JobIds :
        /\ invoked[j] = "explorer"
        /\ store[j].status = "completed"
        /\ store[j].transformation_statistics = Some(ExplorerStats)
        /\ invoked[k] = "sync"
        /\ store[k].status = "completed"

-----------------------------------------------------------------------------
(* C17 *)

\* C17: in every job record error_message is set if and only if status is
\* error: a record in status error carries a non-empty error_message, a
\* record in status processing or completed carries none.
C17_ErrorMessageIffError ==
    \A j \in JobIds :
        store[j].present =>
            /\ store[j].status = "error" => Truthy(store[j].error_message)
            /\ store[j].status \in {"processing", "completed"} =>
                   store[j].error_message.isNull

\* One job ended in error with the message of its handler, another
\* completed.
C17_Witness ==
    \E j, k \in JobIds :
        /\ store[j].status = "error"
        /\ store[j].error_message = Some(ProcMsg(PipelineError))
        /\ store[k].status = "completed"
        /\ TaskEnded(j) /\ TaskEnded(k)

-----------------------------------------------------------------------------
(* C18 *)

\* C18: the initial record process_dataset writes for a new job has
\* status = processing and an updated_at equal to its created_at, at
\* whatever moment the submission runs.
C18_InitialRecordTimestampsEqual ==
    \A j \in JobIds :
        (store[j].present /\ writes[j] = <<"create">>) =>
            /\ store[j].status = "processing"
            /\ stamps[j].updated_at = stamps[j].created_at

-----------------------------------------------------------------------------
(* C19 *)

\* C19: best_choice is set only by the successful completion write: a job
\* record whose status is processing or error has no best_choice value.
C19_BestChoiceOnlyWhenCompleted ==
    \A j \in JobIds :
        (store[j].present /\ store[j].status \in {"processing", "error"}) =>
            store[j].best_choice.isNull

-----------------------------------------------------------------------------
(* C20 *)

\* Column i has an entry in the report.
InReport(report, i) == \E k \in 1..Len(report) : report[k].column = Columns[i]

\* C20: a column with zero missing values and zero outliers appears neither
\* in missing_values_report nor in outliers_report, whatever imputation
\* strategy or detection method its statistics record.
C20_CleanColumnNotReported ==
    \A i \in 1..Len(Columns) :
        (column_stats[i].missing_count = 0 /\ column_stats[i].outliers_count = 0) =>
            /\ ~extracted.missing_values_report.isNull =>
                   ~InReport(extracted.missing_values_report.v, i)
            /\ ~extracted.outliers_report.isNull =>
                   ~InReport(extracted.outliers_report.v, i)

-----------------------------------------------------------------------------
(* C21 *)

\* The step is a call of update_processing_status that did not raise.
StatusUpdateReturned ==
    /\ returned' # returned
    /\ returned'.op = "update_processing_status"
    /\ returned'.value # "SQLAlchemyError"

UnknownIdUpdateFails ==
    (StatusUpdateReturned /\ ~store[returned'.id].present) =>
        /\ returned'.value = "NotFound"
        /\ ~store'[returned'.id].present

\* C21: update_processing_status called with an id that has no record
\* fails with NotFound (it does not report success) and creates no record.
C21_UpdateOfUnknownIdFails == [][UnknownIdUpdateFails]_vars

-----------------------------------------------------------------------------
(* C22 *)

StatusUpdateFrame ==
    (StatusUpdateReturned /\ store[returned'.id].present) =>
        LET id == returned'.id
        IN  /\ \A f \in DOMAIN NoRow \ {"status", "error_message"} :
                   store'[id][f] = store[id][f]
            /\ store'[id].status = returned'.status
            /\ stamps'[id].created_at = stamps[id].created_at
            /\ stamps'[id].updated_at = [isNull |-> FALSE, v |-> clock]
            /\ \A k \in JobIds \ {id} :
                   store'[k] = store[k] /\ stamps'[k] = stamps[k]

\* C22: update_processing_status changes only status, error_message and
\* updated_at of the record with the given id; dataset_id, created_at, both
\* configuration fields, best_choice and every report field are left
\* unchanged, and updated_at is set to the time of the update.
C22_StatusUpdateFrame == [][StatusUpdateFrame]_vars

\* A record created at one clock reading was updated at a later one.
C22_Witness ==
    /\ returned.op = "update_processing_status"
    /\ returned.value = "True"
    /\ store[returned.id].present
    /\ store[returned.id].status = "error"
    /\ store[returned.id].error_message = Some(LoadMsg)
    /\ stamps[returned.id].updated_at.v > stamps[returned.id].created_at.v

-----------------------------------------------------------------------------
(* C23 *)

\* The step answers a GET /process/{id} whose lookup of the record succeeded.
SummaryRead ==
    /\ ResultRead
    /\ reply'.status # "read_failed"
    /\ store[reply'.id].present

\* The validation_results of the row give no metrics: absent, empty, or
\* with a malformed metric.
NoUsableMetrics(row) ==
    ~Truthy(row.validation_results) \/ MalformedMetrics(row.validation_results.v)

SummaryReadSucceeds ==
    SummaryRead =>
        LET row == store[reply'.id]
        IN  /\ reply'.code = 200
            /\ ~reply'.body.isNull
            /\ reply'.body.v[1] = row.status
            /\ reply'.body.v \in {<<row.status>>, <<row.status, "validation">>}
            /\ NoUsableMetrics(row) => reply'.body.v = <<row.status>>

-----------------------------------------------------------------------------
(* C24 *)

\* C24: every file a job writes has a path determined by the job id, so no
\* two distinct jobs ever write the same path, two jobs submitted for the
\* same dataset_id included.
C24_JobsWriteDistinctPaths ==
    \A i, j \in JobIds :
        i # j => FilesWritten(i) \cap FilesWritten(j) = {}

-----------------------------------------------------------------------------
(* C25 *)

\* C25: concurrent runs on the executor's workers share no mutable state:
\* every artifact a run has saved into its report folder is the figure that
\* run drew for that plot, never a figure selected by the other job's run.
C25_SavedFiguresAreOwn ==
    \A j \in JobIds :
        \A i \in 1..Len(pyplot.saved[j]) :
            LET a == pyplot.saved[j][i]
            IN  /\ a.figure.owner = j
                /\ a.path = ReportFolder(j) \o <<a.figure.plot>>

-----------------------------------------------------------------------------
(* C26 *)

\* C26: when an exception has escaped the body of the background task, the
\* done callback _handle_task_exception records status = error with the
\* message of that exception, so the job is not left in processing.
C26_CallbackRecordsEscapedException ==
    \A j \in JobIds :
        pc[j] = "callback_done" =>
            /\ store[j].status = "error"
            /\ Truthy(store[j].error_message)
            /\ Contains(store[j].error_message.v, Last(raised[j]))

-----------------------------------------------------------------------------
(* C27 *)

\* C27: a job submitted through POST /process has its background processing
\* started once the initial record is stored, so it eventually leaves
\* status processing and reaches completed or error.
C27_RouteJobLeavesProcessing ==
    \A j \in JobIds :
        (sub[j] = "route_returned" /\ store[j].present)
            ~> (store[j].status \in TerminalStatuses)

-----------------------------------------------------------------------------
(* C28 *)

\* The positions at which the task is about to write a terminal status.
TerminalWritePositions == ErrorWritePositions \cup {"w_complete"}

\* C28: a background task exists only for a job id whose initial record was
\* stored: when storing the initial record fails, process_dataset raises,
\* returns no id and schedules no task, so no terminal write is attempted
\* for an id without a record.
C28_TaskOnlyForStoredRecord ==
    \A j \in JobIds :
        /\ pc[j] # "none" =>
              /\ store[j].present
              /\ sub[j] = "returned"
              /\ writes[j] # <<>> /\ writes[j][1] = "create"
        /\ sub[j] = "raised" =>
              /\ pc[j] = "none"
              /\ ~store[j].present
              /\ writes[j] = <<>>
        /\ pc[j] \in TerminalWritePositions => store[j].present

\* One submission failed to store its record and has no task, while the
\* task of another one is about to write a terminal status.
C28_Witness ==
    \E i, j \in JobIds :
        /\ sub[i] = "raised" /\ pc[i] = "none" /\ ~store[i].present
        /\ sub[j] = "returned" /\ pc[j] \in TerminalWritePositions

-----------------------------------------------------------------------------
(* C29 *)

\* The step answers a result or sub-view read whose lookup of the record
\* failed (the store raised, or the record did not fit ProcessingResult).
FailedRead ==
    /\ reply' # reply
    /\ reply'.route \in SubViews \cup {"result"}
    /\ reply'.status = "read_failed"

\* The step answers a result or sub-view read of an id without a record.
UnknownIdRead ==
    /\ reply' # reply
    /\ reply'.route \in SubViews \cup {"result"}
    /\ reply'.status # "read_failed"
    /\ ~store[reply'.id].present

FailedReadIsNotFound ==
    /\ FailedRead => (reply'.code = 404 /\ reply'.body = Null)
    /\ UnknownIdRead => (reply'.code = 404 /\ reply'.body = Null)

\* C29: a failure while reading or decoding a job record is answered by the
\* result read and by the sub-view reads with 404, exactly as a read of an
\* id that has no record, and never with a server error.
C29_FailedReadIsNotFound == [][FailedReadIsNotFound]_vars

\* The read of a report of a completed job failed and was answered 404.
C29_Witness ==
    /\ reply.route \in SubViews
    /\ reply.status = "read_failed"
    /\ reply.code = 404
    /\ store[reply.id].present
    /\ store[reply.id].status = "completed"
    /\ Truthy(store[reply.id][reply.route])

-----------------------------------------------------------------------------
(* C30 *)

\* C30: for every client IP and every configured RATE_LIMIT_REQUESTS and
\* RATE_LIMIT_WINDOW the limiter admits at most RATE_LIMIT_REQUESTS requests
\* to non-excluded routes within any window of RATE_LIMIT_WINDOW seconds,
\* and a request arriving when the IP already has that many admitted
\* requests inside the window is rejected with 429 and not recorded.
C30_AtMostLimitPerWindow ==
    /\ \A ip \in ClientIps : \A from \in 0..MaxTime :
          InWindow(gateway.admitted[ip], from, from + gateway.RATE_LIMIT_WINDOW)
              <= gateway.RATE_LIMIT_REQUESTS
    /\ (~gateway.last.excluded /\ gateway.last.ip # ""
            /\ gateway.last.inWindow >= gateway.RATE_LIMIT_REQUESTS) =>
          (gateway.last.code = 429 /\ ~gateway.last.recorded)

=============================================================================
